---- MODULE Spec2Model ----
(***************************************************************************)
(* serve-folder: the parallel, progress-tracked ZIP builder.               *)
(*                                                                         *)
(*   state.rs     ServerState: the tracker map zip_progress behind a mutex *)
(*   handlers.rs  handle_zip_init, handle_download_folder                  *)
(*   zip.rs       count_files_in_directory, create_zip_archive,            *)
(*                start_progress_tracking, collect_files_by_directory,     *)
(*                balance_file_groups, process_file_groups_in_parallel,    *)
(*                merge_zip_segments                                       *)
(*                                                                         *)
(* Strings (paths, archive entry names, progress messages) are sequences   *)
(* of tokens; the path separator "/" is a token of its own, so that        *)
(* strip_prefix, ensure_trailing_slash and is_dir work on the text.        *)
(***************************************************************************)
EXTENDS Integers, Sequences, FiniteSets, TLC

\* ------------------------------------------------------------------ bounds
\* Regular files in the served tree of the build specification.
MaxFiles == 3
\* Regular files in the trees the grouping specification enumerates.
MaxWalkLen == 11
\* Logical cores num_cpus::get() may report.
MaxCpus == 2
\* Calls of ServerState's methods in the tracker specification.
MaxCalls == 3
\* Groups handed to balance_file_groups in the balancing specification.
MaxBalanceGroups == 3
\* Milliseconds the clock runs through while requests arrive.
MaxClock == 2
MaxStops == 3

\* ------------------------------------------------------- program constants
\* balance_file_groups: "if group.len() > 10"
SplitThreshold == 10
\* balance_file_groups: "(num_cpus::get() * 2).max(4)"
MinTargetGroups == 4
\* merge_zip_segments: "percentage: 95.0"
MergingPercentage == 95
\* create_zip_archive: "percentage: 100.0"
FullPercentage == 100

VARIABLES
    tree,            \* the served directory: its entries in file-name order
    zip_progress,    \* ServerStateInner.zip_progress: operation id -> ZipProgress
    initPc,          \* handle_zip_init and its spawned count task
    initPath,        \* handle_zip_init: full_path
    initId,          \* handle_zip_init: operation_id
    dlPc,            \* handle_download_folder
    dlPath,          \* handle_download_folder: full_path
    operation_id,    \* handle_download_folder: operation_id
    dlGenerated,     \* handle_download_folder: query.operation_id was None
    dlTotal,         \* handle_download_folder: total_files
    delivered,       \* the response body: the entries of the archive sent
    orchPc,          \* create_zip_archive's blocking closure
    total_files,     \* create_zip_archive: total_files
    processed_count, \* Arc<AtomicUsize>
    current_file,    \* Arc<Mutex<String>>
    temp_dir,        \* the TempDir exists on disk
    file_groups,     \* collect_files_by_directory's result
    collected,       \* collect_files_by_directory has returned
    wPc,             \* per group: the par_iter closure's position
    wIdx,            \* per group: index of the file being processed
    segWritten,      \* per group: files whose bytes are fully written to its segment
    segEntries,      \* per group: the entries written to its segment archive
    segFiles,        \* the groups whose segment file exists in the TempDir
    segment_paths,   \* Mutex<Vec<PathBuf>>: groups whose segment was pushed
    mergeIdx,        \* merge_zip_segments: segments consumed so far
    outState,        \* the output file: "none", "temp", "partial", "final"
    outEntries,      \* the entries written to the output archive
    repPc,           \* the progress thread
    last_processed,  \* progress thread: last_processed
    processed,       \* progress thread: processed
    repCurrent,      \* progress thread: current
    shutdown_tx,     \* ServerStateInner.shutdown_tx: an Option, as a set of at most one
    inner_root_path, \* ServerStateInner.root_path
    call,            \* the ServerState method a client of the tracker called last
    before,          \* the ServerStateInner before that call
    reply,           \* handle_zip_progress: the record answered, as a set of at most one
    calls,           \* the number of calls made
    now,             \* SystemTime::now(), in milliseconds since the epoch
    held,            \* per mutex: the thread that holds it, or "free"
    lockPc,          \* per thread: its position in its sequence of lock operations
    stop,            \* per stop request: its position, its sender, its answer
    signals          \* number of shutdown signals sent

vars == <<tree, zip_progress, initPc, initPath, initId, dlPc, dlPath, operation_id, dlGenerated,
          dlTotal, delivered, orchPc, total_files, processed_count,
          current_file, temp_dir, file_groups, collected, wPc, wIdx, segWritten,
          segEntries, segFiles, segment_paths, mergeIdx, outState, outEntries, repPc,
          last_processed, processed, repCurrent, shutdown_tx, inner_root_path,
          call, before, reply, calls, now, held, lockPc, stop, signals>>

\* What the build never touches: the other fields of ServerStateInner, the
\* clients that call the tracker directly, and the clock.
stopFrame == <<stop, signals>>

clientFrame == <<shutdown_tx, inner_root_path, call, before, reply, calls, now,
                 held, lockPc, stopFrame>>

\* ----------------------------------------------------------------- helpers
Max(a, b) == IF a >= b THEN a ELSE b
Min(a, b) == IF a <= b THEN a ELSE b

RECURSIVE SumSeq(_)
SumSeq(s) == IF s = <<>> THEN 0 ELSE Head(s) + SumSeq(Tail(s))

RECURSIVE Flatten(_)
Flatten(ss) == IF ss = <<>> THEN <<>> ELSE Head(ss) \o Flatten(Tail(ss))

Range(s) == {s[i] : i \in DOMAIN s}

NoDuplicates(s) == \A i, j \in DOMAIN s : i # j => s[i] # s[j]

\* ------------------------------------------------------------- file system
\* The served root directory (ServerStateInner.root_path).
root_path == <<"root">>

\* File names: two digits, so that text order is numeric order.
EntryNames ==
    [i \in 1..(MaxWalkLen + MaxFiles + 2) |->
        IF i < 10 THEN "e0" \o ToString(i) ELSE "e" \o ToString(i)]

EntryName(i) == EntryNames[i]

\* An entry of `tree` is 0 for a regular file and k >= 1 for a subdirectory
\* holding k - 1 regular files. tree[i] is named EntryName(i): the listing of
\* the root is kept in file-name order.
IsSubdir(i) == i \in DOMAIN tree /\ tree[i] >= 1

FilesIn(i) == IF tree[i] >= 1 THEN tree[i] - 1 ELSE 0

\* The directories of the tree (Path::is_dir).
is_dir_path(p) ==
    \/ p = root_path
    \/ \E i \in DOMAIN tree : IsSubdir(i) /\ p = root_path \o <<EntryName(i)>>

\* fs::read_dir: the entries of directory dir, each [path, is_file].
ReadDir(dir) ==
    IF dir = root_path
    THEN [i \in DOMAIN tree |->
            [path |-> root_path \o <<EntryName(i)>>, is_file |-> tree[i] = 0]]
    ELSE LET i == CHOOSE k \in DOMAIN tree :
                      IsSubdir(k) /\ dir = root_path \o <<EntryName(k)>>
         IN  [j \in 1..FilesIn(i) |->
                [path |-> dir \o <<EntryName(j)>>, is_file |-> TRUE]]

\* count_files_in_directory: files of dir, subdirectories descended.
RECURSIVE CountEntries(_, _)
RECURSIVE count_files_in_directory(_)
CountEntries(entries, i) ==
    IF i > Len(entries) THEN 0
    ELSE (IF entries[i].is_file THEN 1
          ELSE count_files_in_directory(entries[i].path))
         + CountEntries(entries, i + 1)
count_files_in_directory(dir) == CountEntries(ReadDir(dir), 1)

\* WalkDir::new(dir).sort_by_file_name(): the directory itself, then its
\* entries in file-name order, a subdirectory's content right after it.
RECURSIVE WalkEntries(_, _)
RECURSIVE WalkDir(_)
WalkEntries(entries, i) ==
    IF i > Len(entries) THEN <<>>
    ELSE (IF entries[i].is_file THEN <<entries[i]>>
          ELSE WalkDir(entries[i].path))
         \o WalkEntries(entries, i + 1)
WalkDir(dir) == <<[path |-> dir, is_file |-> FALSE]>> \o WalkEntries(ReadDir(dir), 1)

\* Path::parent
Parent(path) == SubSeq(path, 1, Len(path) - 1)

\* ---------------------------------------------- balance_file_groups (zip.rs)
\* usize::cmp as an Ordering: -1 Less, 0 Equal, 1 Greater.
Cmp(a, b) == IF a < b THEN -1 ELSE IF a = b THEN 0 ELSE 1

\* Ordering::reverse
Reverse(o) == 0 - o

\* The comparator of the split branch: |a, b| b.len().cmp(&a.len()).reverse()
SplitCompare(a, b) == Reverse(Cmp(Len(b), Len(a)))

\* The comparator of the merge branch: |a, b| a.len().cmp(&b.len())
MergeCompare(a, b) == Cmp(Len(a), Len(b))

Compare(which, a, b) ==
    IF which = "split" THEN SplitCompare(a, b) ELSE MergeCompare(a, b)

\* slice::sort_by is a stable sort: x goes behind every element that does
\* not compare Greater than it.
RECURSIVE InsertSorted(_, _, _)
InsertSorted(which, sorted, x) ==
    IF sorted = <<>> THEN <<x>>
    ELSE IF Compare(which, Head(sorted), x) = 1
         THEN <<x>> \o sorted
         ELSE <<Head(sorted)>> \o InsertSorted(which, Tail(sorted), x)

RECURSIVE SortFrom(_, _, _, _)
SortFrom(which, groups, i, acc) ==
    IF i > Len(groups) THEN acc
    ELSE SortFrom(which, groups, i + 1, InsertSorted(which, acc, groups[i]))

sort_by(which, groups) == SortFrom(which, groups, 1, <<>>)

\* Vec::split_off(at): the elements from index `at` (0-based) on.
SplitOff_DropsOne(group, at) == SubSeq(group, at + 2, Len(group))
SplitOff(group, at) == SubSeq(group, at + 1, Len(group))

\* "for i in 0..additional_groups_needed.min(groups.len())": i is 1-based
\* here and n is the bound of the range, fixed before the loop.
RECURSIVE SplitLoop(_, _, _)
SplitLoop(groups, i, n) ==
    IF i > n THEN groups
    ELSE LET group == groups[i]
         IN  IF Len(group) > SplitThreshold
             THEN LET split_point == Len(group) \div 2
                      second_half == SplitOff(group, split_point)
                      first_half == SubSeq(group, 1, split_point)
                  IN  SplitLoop(Append([groups EXCEPT ![i] = first_half],
                                       second_half), i + 1, n)
             ELSE SplitLoop(groups, i + 1, n)

\* "while groups.len() > target_groups": remove(0) twice, push the union.
RECURSIVE MergeLoop(_, _)
MergeLoop(groups, target) ==
    IF Len(groups) > target
    THEN IF Len(groups) >= 2
         THEN LET group1 == groups[1]
                  group2 == groups[2]
                  rest == SubSeq(groups, 3, Len(groups))
              IN  MergeLoop(Append(rest, group1 \o group2), target)
         ELSE groups
    ELSE groups

target_groups(cpus) == Max(cpus * 2, MinTargetGroups)

balance_file_groups(groups, cpus) ==
    LET target == target_groups(cpus)
    IN  IF Len(groups) < target
        THEN LET sorted == sort_by("split", groups)
                 additional_groups_needed == target - Len(sorted)
             IN  SplitLoop(sorted, 1, Min(additional_groups_needed, Len(sorted)))
        ELSE IF Len(groups) > target * 2
             THEN MergeLoop(sort_by("merge", groups), target)
             ELSE groups

\* ---------------------------------------- collect_files_by_directory (zip.rs)
\* The walk loop: a new group starts when a file's parent differs from
\* current_dir.
RECURSIVE CollectLoop(_, _, _, _, _)
CollectLoop(walk, i, directory_groups, current_dir, current_group) ==
    IF i > Len(walk)
    THEN IF current_group # <<>>
         THEN Append(directory_groups, current_group)
         ELSE directory_groups
    ELSE IF ~walk[i].is_file
         THEN CollectLoop(walk, i + 1, directory_groups, current_dir, current_group)
         ELSE LET path == walk[i].path
                  parent == Parent(path)
              IN  IF current_dir # <<>> /\ parent # current_dir
                  THEN CollectLoop(walk, i + 1,
                                   IF current_group # <<>>
                                   THEN Append(directory_groups, current_group)
                                   ELSE directory_groups,
                                   parent, <<path>>)
                  ELSE CollectLoop(walk, i + 1, directory_groups,
                                   IF current_dir = <<>> THEN parent ELSE current_dir,
                                   Append(current_group, path))

\* The groups before balancing.
directory_groups_of(base_dir) == CollectLoop(WalkDir(base_dir), 1, <<>>, <<>>, <<>>)

collect_files_by_directory(base_dir, cpus) ==
    balance_file_groups(directory_groups_of(base_dir), cpus)

\* ------------------------------------------------------------ path strings
\* Path::strip_prefix(..).unwrap_or(path): the components behind the prefix,
\* or the path itself when the prefix does not match.
StripPrefix(path, prefix) ==
    IF Len(prefix) <= Len(path) /\ SubSeq(path, 1, Len(prefix)) = prefix
    THEN SubSeq(path, Len(prefix) + 1, Len(path))
    ELSE path

\* to_string_lossy of a relative path: the components joined by "/".
RECURSIVE PathString(_)
PathString(p) ==
    IF p = <<>> THEN <<>>
    ELSE IF Len(p) = 1 THEN p
    ELSE <<Head(p), "/">> \o PathString(Tail(p))

\* rel_path of process_file_groups_in_parallel
RelPath(file_path, root_dir) == PathString(StripPrefix(file_path, root_dir))

ensure_trailing_slash(path) ==
    IF path = <<>> \/ path[Len(path)] = "/" THEN path ELSE path \o <<"/">>

\* ZipFile::is_dir: the entry name ends with a separator.
is_dir(name) == name # <<>> /\ name[Len(name)] \in {"/", "\\"}

\* "Handle directory entries": the name handed to add_directory, or <<>>
\* when the file lies directly in root_dir.
DirEntryFor(file_path, root_dir) ==
    LET parent_rel == PathString(StripPrefix(Parent(file_path), root_dir))
        dir_path == ensure_trailing_slash(parent_rel)
    IN  IF parent_rel # <<>> /\ dir_path # <<>> /\ dir_path # <<"/">>
        THEN dir_path
        ELSE <<>>

\* merge_zip_segments: the entries of one segment that go to the final ZIP.
MergedEntries_KeepsDirs(entries) == entries
MergedEntries(entries) == SelectSeq(entries, LAMBDA name : ~is_dir(name))

\* ----------------------------------------------------------- ZipProgress
\* percentage is kept in whole percent (the f32 value, rounded down).
ZipProgress(current, done, total, pct) ==
    [current_file |-> current, processed_files |-> done,
     total_files |-> total, percentage |-> pct]

\* start_progress_tracking: (processed as f32 / total_files as f32) * 100.0
Percentage(done, total) == IF total > 0 THEN (done * 100) \div total ELSE 0

\* ServerState::update_progress: HashMap::insert
update_progress_OnlyThisJob(map, id, progress) == [k \in {id} |-> progress]
update_progress(map, id, progress) ==
    [k \in (DOMAIN map) \cup {id} |-> IF k = id THEN progress ELSE map[k]]

\* ServerState::get_progress: Option<ZipProgress>, as a set of at most one.
get_progress(map, id) == IF id \in DOMAIN map THEN {map[id]} ELSE {}

\* ServerState::remove_progress: HashMap::remove
remove_progress_KeepsRecord(map, id) == map
remove_progress(map, id) == [k \in (DOMAIN map) \ {id} |-> map[k]]

\* ServerState::get_root_path
get_root_path == inner_root_path

\* "Some(progress) if progress.total_files > 0 => progress.total_files,
\*  _ => count_files_in_directory(..)"
KnownTotal(map, id) == {p.total_files : p \in {q \in get_progress(map, id) : q.total_files > 0}}

\* ------------------------------------------------------------------- Init
\* The served tree of the build specification: a subdirectory with one
\* file, an empty subdirectory, and MaxFiles - 1 files in the root.
MainTree == <<2, 1>> \o [i \in 1..(MaxFiles - 1) |-> 0]

\* format!("zip_{}", ..as_millis()): the operation id generated at time t.
GeneratedId(t) == "zip_" \o ToString(t)

\* The operation ids generated at the first two milliseconds.
ZipInitId == GeneratedId(1)
OtherId == GeneratedId(2)

\* The paths a request may name, relative to root_path.
QueryPaths == {<<>>, <<EntryName(1)>>, <<EntryName(2)>>, <<"missing">>}

\* The mutexes: ServerState.inner, create_zip_archive's current_file and
\* process_file_groups_in_parallel's segment_paths.
Mutexes == {"inner", "current_file", "segment_paths"}

\* The threads that take them: the progress thread, two group closures, a
\* status poll and the orchestrator.
LockThreads == {"reporter", "worker_1", "worker_2", "poller", "orchestrator"}

\* The stop requests, none of them received yet.
StopRequests == 1 .. MaxStops

NoStop == [pc |-> "idle", tx |-> {}, reply |-> "none"]

\* No method of ServerState has been called by a client yet.
NoCall == [op |-> "none", id |-> "none", progress |-> {}]

\* ServerState::new, and nothing has been requested yet.
Idle ==
    /\ zip_progress = <<>>
    /\ initPc = "idle"
    /\ initPath = <<>>
    /\ initId = "none"
    /\ operation_id = "none"
    /\ dlGenerated = FALSE
    /\ dlTotal = 0
    /\ delivered = <<>>
    /\ total_files = 0
    /\ processed_count = 0
    /\ current_file = <<>>
    /\ temp_dir = FALSE
    /\ file_groups = <<>>
    /\ collected = FALSE
    /\ wPc = <<>>
    /\ wIdx = <<>>
    /\ segWritten = <<>>
    /\ segEntries = <<>>
    /\ segFiles = {}
    /\ segment_paths = <<>>
    /\ mergeIdx = 0
    /\ outState = "none"
    /\ outEntries = <<>>
    /\ repPc = "none"
    /\ last_processed = 0
    /\ processed = 0
    /\ repCurrent = <<>>
    /\ shutdown_tx = {}
    /\ inner_root_path = root_path
    /\ call = NoCall
    /\ before = [shutdown_tx |-> {}, root_path |-> root_path, zip_progress |-> <<>>]
    /\ reply = {}
    /\ calls = 0
    /\ now = 1
    /\ held = [m \in Mutexes |-> "free"]
    /\ lockPc = [t \in LockThreads |-> 1]
    /\ stop = [r \in StopRequests |-> NoStop]
    /\ signals = 0

Init ==
    /\ tree = MainTree
    /\ dlPc = "idle"
    /\ dlPath = <<>>
    /\ orchPc = "idle"
    /\ Idle

\* --------------------------------------------------------------- the clock
\* A millisecond passes. The clock is read by the two requests only, and
\* only whether they read the same value matters: it is advanced between
\* the first request and the second.
ClockTick ==
    /\ now < MaxClock
    /\ (initPc = "idle") # (dlPc = "idle")
    /\ now' = now + 1
    /\ UNCHANGED <<tree, zip_progress, initPc, initPath, initId, dlPc, dlPath,
                   operation_id, dlGenerated, dlTotal, delivered, orchPc,
                   total_files, processed_count, current_file, temp_dir,
                   file_groups, collected, wPc, wIdx, segWritten, segEntries,
                   segFiles, segment_paths, mergeIdx, outState, outEntries,
                   repPc, last_processed, processed, repCurrent, shutdown_tx,
                   inner_root_path, call, before, reply, calls, held, lockPc, stop, signals>>

\* ------------------------------------------------- handle_zip_init (handlers.rs)
\* The request: validate the path, generate the id, store "Scanning",
\* spawn the count task.
ZipInit(path) ==
    /\ initPc = "idle"
    /\ LET full_path == get_root_path \o path
       IN  IF ~is_dir_path(full_path)
           THEN /\ initPc' = "not_found"
                /\ UNCHANGED <<initPath, initId, zip_progress>>
           ELSE /\ initPc' = "counting"
                /\ initPath' = full_path
                /\ initId' = GeneratedId(now)
                /\ zip_progress' = update_progress(zip_progress, GeneratedId(now),
                       ZipProgress(<<"Scanning directory...">>, 0, 0, 0))
    /\ UNCHANGED <<tree, clientFrame, dlPc, dlPath, operation_id, dlGenerated, dlTotal, delivered, orchPc,
                   total_files, processed_count, current_file, temp_dir,
                   file_groups, collected, wPc, wIdx, segWritten, segEntries, segFiles,
                   segment_paths, mergeIdx, outState, outEntries, repPc,
                   last_processed, processed, repCurrent>>

\* The spawned task: count the files, store "Ready".
ZipInitCount ==
    /\ initPc = "counting"
    /\ initPc' = "done"
    /\ zip_progress' = update_progress(zip_progress, initId,
           ZipProgress(<<"Ready to start download...">>, 0,
                       count_files_in_directory(initPath), 0))
    /\ UNCHANGED <<tree, clientFrame, initPath, initId, dlPc, dlPath, operation_id, dlGenerated, dlTotal, delivered,
                   orchPc, total_files, processed_count, current_file, temp_dir,
                   file_groups, collected, wPc, wIdx, segWritten, segEntries, segFiles,
                   segment_paths, mergeIdx, outState, outEntries, repPc,
                   last_processed, processed, repCurrent>>

\* ------------------------------------------ handle_download_folder (handlers.rs)
dlFrame == <<tree, clientFrame, initPc, initPath, initId, total_files, processed_count, current_file,
             temp_dir, file_groups, collected, wPc, wIdx, segWritten, segEntries, segFiles,
             segment_paths, mergeIdx, outEntries, repPc, last_processed,
             processed, repCurrent>>

\* query.operation_id, an Option as a set of at most one: None, or the id
\* the zip-init request has answered.
SuppliedIds ==
    {{}} \cup (IF initPc \in {"counting", "done"} THEN {{initId}} ELSE {})

\* The request: validate the path and take the operation id, the supplied
\* one or one generated from the clock.
DlRequest(path, supplied) ==
    /\ dlPc = "idle"
    /\ LET full_path == get_root_path \o path
       IN  IF ~is_dir_path(full_path)
           THEN /\ dlPc' = "not_found"
                /\ UNCHANGED <<dlPath, operation_id, dlGenerated>>
           ELSE /\ dlPc' = "tempfile"
                /\ dlPath' = full_path
                /\ operation_id' = IF supplied = {} THEN GeneratedId(now)
                                   ELSE CHOOSE id \in supplied : TRUE
                /\ dlGenerated' = (supplied = {})
    /\ UNCHANGED <<zip_progress, dlTotal, delivered, orchPc, outState>>
    /\ UNCHANGED dlFrame

\* NamedTempFile::new()
DlTempFile(ok) ==
    /\ dlPc = "tempfile"
    /\ IF ok THEN dlPc' = "get_total" /\ outState' = "temp"
             ELSE dlPc' = "rejected" /\ UNCHANGED outState
    /\ UNCHANGED <<zip_progress, dlPath, operation_id, dlGenerated, dlTotal, delivered, orchPc>>
    /\ UNCHANGED dlFrame

\* "Count files if needed": the get_progress call.
DlGetTotal ==
    /\ dlPc = "get_total"
    /\ LET known == KnownTotal(zip_progress, operation_id)
       IN  IF known # {}
           THEN /\ dlTotal' = CHOOSE t \in known : TRUE
                /\ dlPc' = "creating"
           ELSE /\ dlPc' = "count"
                /\ UNCHANGED dlTotal
    /\ UNCHANGED <<zip_progress, dlPath, operation_id, dlGenerated, delivered, orchPc, outState>>
    /\ UNCHANGED dlFrame

\* "Count files if needed": the count and the "Starting compression..." record.
DlCount ==
    /\ dlPc = "count"
    /\ LET count == count_files_in_directory(dlPath)
       IN  /\ zip_progress' = update_progress(zip_progress, operation_id,
                  ZipProgress(<<"Starting compression...">>, 0, count, 0))
           /\ dlTotal' = count
    /\ dlPc' = "creating"
    /\ UNCHANGED <<dlPath, operation_id, dlGenerated, delivered, orchPc, outState>>
    /\ UNCHANGED dlFrame

\* "Update progress for ZIP creation", then the call of create_zip_archive.
DlCreating ==
    /\ dlPc = "creating"
    /\ zip_progress' = update_progress(zip_progress, operation_id,
           ZipProgress(<<"Creating ZIP file...">>, 0, dlTotal, 0))
    /\ dlPc' = "await"
    /\ orchPc' = "get_total"
    /\ UNCHANGED <<dlPath, operation_id, dlGenerated, dlTotal, delivered, outState>>
    /\ UNCHANGED dlFrame

\* create_zip_archive(..).await: Err is answered with ZipCreationError.
DlAwait ==
    /\ dlPc = "await"
    /\ orchPc \in {"ok", "err"}
    /\ dlPc' = IF orchPc = "err" THEN "rejected" ELSE "remove"
    /\ UNCHANGED <<zip_progress, dlPath, operation_id, dlGenerated, dlTotal, delivered, orchPc,
                   outState>>
    /\ UNCHANGED dlFrame

\* "Clean up progress tracking"
DlRemove ==
    /\ dlPc = "remove"
    /\ zip_progress' = remove_progress(zip_progress, operation_id)
    /\ dlPc' = "read"
    /\ UNCHANGED <<dlPath, operation_id, dlGenerated, dlTotal, delivered, orchPc, outState>>
    /\ UNCHANGED dlFrame

\* "Read ZIP file" and answer with its bytes.
DlRead(ok) ==
    /\ dlPc = "read"
    /\ IF ok THEN dlPc' = "responded" /\ delivered' = outEntries
             ELSE dlPc' = "rejected" /\ UNCHANGED delivered
    /\ UNCHANGED <<zip_progress, dlPath, operation_id, dlGenerated, dlTotal, orchPc, outState>>
    /\ UNCHANGED dlFrame

\* ---------------------------------------------- create_zip_archive (zip.rs)
orchFrame == <<tree, clientFrame, initPc, initPath, initId, dlPc, dlPath, operation_id, dlGenerated, dlTotal,
               delivered>>

Groups == DOMAIN file_groups

\* temp_dir goes out of scope (Ok(()) or a `?` return): TempDir's Drop removes
\* the directory with everything in it. The segment files left afterwards.
DropTempDir_KeepsSegments(files) == files
DropTempDir(files) == {}

\* "Get total files first"
OrchGetTotal ==
    /\ orchPc = "get_total"
    /\ LET known == KnownTotal(zip_progress, operation_id)
       IN  total_files' = IF known # {} THEN CHOOSE t \in known : TRUE
                          ELSE count_files_in_directory(dlPath)
    /\ orchPc' = "init"
    /\ UNCHANGED <<zip_progress, processed_count, current_file, temp_dir,
                   file_groups, collected, wPc, wIdx, segWritten, segEntries, segFiles,
                   segment_paths, mergeIdx, outState, outEntries, repPc,
                   last_processed, processed, repCurrent>>
    /\ UNCHANGED orchFrame

\* "Initialize progress" and "Create shared progress trackers"
OrchInitProgress ==
    /\ orchPc = "init"
    /\ zip_progress' = update_progress(zip_progress, operation_id,
           ZipProgress(<<"Initializing high-performance compression...">>,
                       0, total_files, 0))
    /\ processed_count' = 0
    /\ current_file' = <<>>
    /\ orchPc' = "tempdir"
    /\ UNCHANGED <<total_files, temp_dir, file_groups, collected, wPc, wIdx, segWritten,
                   segEntries, segFiles, segment_paths, mergeIdx, outState,
                   outEntries, repPc, last_processed, processed, repCurrent>>
    /\ UNCHANGED orchFrame

\* "let temp_dir = tempdir()?"
OrchTempDir(ok) ==
    /\ orchPc = "tempdir"
    /\ IF ok THEN orchPc' = "spawn" /\ temp_dir' = TRUE
             ELSE orchPc' = "err" /\ UNCHANGED temp_dir
    /\ UNCHANGED <<zip_progress, total_files, processed_count, current_file,
                   file_groups, collected, wPc, wIdx, segWritten, segEntries, segFiles,
                   segment_paths, mergeIdx, outState, outEntries, repPc,
                   last_processed, processed, repCurrent>>
    /\ UNCHANGED orchFrame

\* "Start progress tracking thread"
OrchSpawnReporter ==
    /\ orchPc = "spawn"
    /\ repPc' = "load"
    /\ last_processed' = 0
    /\ orchPc' = "collect"
    /\ UNCHANGED <<zip_progress, total_files, processed_count, current_file,
                   temp_dir, file_groups, collected, wPc, wIdx, segWritten, segEntries,
                   segFiles, segment_paths, mergeIdx, outState, outEntries,
                   processed, repCurrent>>
    /\ UNCHANGED orchFrame

\* "Group files by directory": collect_files_by_directory(&base_dir, ..),
\* on a machine with `cpus` logical cores.
OrchCollect(cpus) ==
    /\ orchPc = "collect"
    /\ \E groups \in {collect_files_by_directory(dlPath, cpus)} :
           /\ file_groups' = groups
           /\ wPc' = [g \in DOMAIN groups |-> "idle"]
           /\ wIdx' = [g \in DOMAIN groups |-> 0]
           /\ segWritten' = [g \in DOMAIN groups |-> 0]
           /\ segEntries' = [g \in DOMAIN groups |-> <<>>]
    /\ collected' = TRUE
    /\ orchPc' = "parallel"
    /\ UNCHANGED <<zip_progress, total_files, processed_count, current_file,
                   temp_dir, segFiles, segment_paths, mergeIdx, outState,
                   outEntries, repPc, last_processed, processed, repCurrent>>
    /\ UNCHANGED orchFrame

\* ------------------------------- process_file_groups_in_parallel (zip.rs)
workerFrame == <<tree, clientFrame, zip_progress, initPc, initPath, initId, dlPc, dlPath,
                 operation_id, dlGenerated, dlTotal, delivered, orchPc, total_files,
                 temp_dir, file_groups, collected, mergeIdx, outState,
                 outEntries, repPc, last_processed, processed, repCurrent>>

\* Some closure has returned Err: try_for_each hands out no further group.
AnyGroupFailed == \E g \in Groups : wPc[g] = "err"

\* The closure starts on group g: "Create a unique segment file".
WorkerStart(g, ok) ==
    /\ orchPc = "parallel"
    /\ wPc[g] = "idle"
    /\ ~AnyGroupFailed
    /\ IF ok
       THEN /\ wPc' = [wPc EXCEPT ![g] = "file"]
            /\ wIdx' = [wIdx EXCEPT ![g] = 1]
            /\ segFiles' = segFiles \cup {g}
       ELSE /\ wPc' = [wPc EXCEPT ![g] = "err"]
            /\ UNCHANGED <<wIdx, segFiles>>
    /\ UNCHANGED <<processed_count, current_file, segWritten, segEntries, segment_paths>>
    /\ UNCHANGED workerFrame

\* One file: the current-file update, the directory entry (add_directory's
\* result is dropped: `added` tells whether the entry was written) and
\* start_file.
WorkerBeginFile(g, added, ok) ==
    /\ wPc[g] = "file"
    /\ LET file_path == file_groups[g][wIdx[g]]
           rel_path == RelPath(file_path, dlPath)
           dir_path == DirEntryFor(file_path, dlPath)
           with_dir == IF dir_path # <<>> /\ added
                       THEN Append(segEntries[g], dir_path)
                       ELSE segEntries[g]
       IN  /\ dir_path = <<>> => added
           /\ current_file' = rel_path
           /\ IF ok
              THEN /\ segEntries' = [segEntries EXCEPT ![g] = Append(with_dir, rel_path)]
                   /\ wPc' = [wPc EXCEPT ![g] = "stream"]
              ELSE /\ segEntries' = [segEntries EXCEPT ![g] = with_dir]
                   /\ wPc' = [wPc EXCEPT ![g] = "err"]
    /\ UNCHANGED <<processed_count, wIdx, segWritten, segFiles, segment_paths>>
    /\ UNCHANGED workerFrame

\* "Stream file in chunks": File::open, read, write_all; with ok the loop has
\* ended, all bytes of the file written.
WorkerStream(g, ok) ==
    /\ wPc[g] = "stream"
    /\ wPc' = [wPc EXCEPT ![g] = IF ok THEN "count" ELSE "err"]
    /\ segWritten' = [segWritten EXCEPT ![g] = IF ok THEN @ + 1 ELSE @]
    /\ UNCHANGED <<processed_count, current_file, wIdx, segEntries, segFiles,
                   segment_paths>>
    /\ UNCHANGED workerFrame

\* AtomicUsize::fetch_add: the value stored, one read-modify-write.
fetch_add_FirstOnly(counter, val) == IF counter = 0 THEN val ELSE counter
fetch_add(counter, val) == counter + val

\* "Update progress counter": fetch_add(1), then the next file of the group.
WorkerCount(g) ==
    /\ wPc[g] = "count"
    /\ processed_count' = fetch_add(processed_count, 1)
    /\ IF wIdx[g] < Len(file_groups[g])
       THEN /\ wIdx' = [wIdx EXCEPT ![g] = wIdx[g] + 1]
            /\ wPc' = [wPc EXCEPT ![g] = "file"]
       ELSE /\ wPc' = [wPc EXCEPT ![g] = "finish"]
            /\ UNCHANGED wIdx
    /\ UNCHANGED <<current_file, segWritten, segEntries, segFiles, segment_paths>>
    /\ UNCHANGED workerFrame

\* "Finish this segment" and "Add segment path to the list".
WorkerFinish(g, ok) ==
    /\ wPc[g] = "finish"
    /\ IF ok
       THEN /\ wPc' = [wPc EXCEPT ![g] = "done"]
            /\ segment_paths' = Append(segment_paths, g)
       ELSE /\ wPc' = [wPc EXCEPT ![g] = "err"]
            /\ UNCHANGED segment_paths
    /\ UNCHANGED <<processed_count, current_file, wIdx, segWritten, segEntries, segFiles>>
    /\ UNCHANGED workerFrame

\* try_for_each returns once no closure is running: every group is done or
\* failed, or was never handed out because another one had failed.
ParallelPhaseJoined_FirstDone ==
    \E g \in Groups : wPc[g] \in {"done", "err"}
ParallelPhaseJoined ==
    \A g \in Groups : \/ wPc[g] \in {"done", "err"}
                      \/ wPc[g] = "idle" /\ AnyGroupFailed

\* The io::Result of try_for_each.
TryForEachResult_AlwaysOk == "ok"
TryForEachResult == IF AnyGroupFailed THEN "err" ELSE "ok"

\* "process_file_groups_in_parallel(..)?": on Err the closure returns and
\* temp_dir is dropped, which removes the directory and what is in it.
OrchParallelReturn ==
    /\ orchPc = "parallel"
    /\ ParallelPhaseJoined
    /\ IF TryForEachResult = "ok"
       THEN /\ orchPc' = "merge_update"
            /\ UNCHANGED <<temp_dir, segFiles>>
       ELSE /\ orchPc' = "err"
            /\ temp_dir' = FALSE
            /\ segFiles' = DropTempDir(segFiles)
    /\ UNCHANGED <<zip_progress, total_files, processed_count, current_file,
                   file_groups, collected, wPc, wIdx, segWritten, segEntries, segment_paths,
                   mergeIdx, outState, outEntries, repPc, last_processed,
                   processed, repCurrent>>
    /\ UNCHANGED orchFrame

\* ------------------------------------------------ merge_zip_segments (zip.rs)
\* "Update status"
MergeUpdate ==
    /\ orchPc = "merge_update"
    /\ zip_progress' = update_progress(zip_progress, operation_id,
           ZipProgress(<<"Merging ZIP segments...">>, 0, 0, MergingPercentage))
    /\ orchPc' = "merge_create"
    /\ UNCHANGED <<total_files, processed_count, current_file, temp_dir,
                   file_groups, collected, wPc, wIdx, segWritten, segEntries, segFiles,
                   segment_paths, mergeIdx, outState, outEntries, repPc,
                   last_processed, processed, repCurrent>>
    /\ UNCHANGED orchFrame

\* "Create the final ZIP file"
MergeCreate(ok) ==
    /\ orchPc = "merge_create"
    /\ IF ok
       THEN /\ orchPc' = "merge_segments"
            /\ outState' = "partial"
            /\ UNCHANGED <<temp_dir, segFiles>>
       ELSE /\ orchPc' = "err"
            /\ temp_dir' = FALSE
            /\ segFiles' = DropTempDir(segFiles)
            /\ UNCHANGED outState
    /\ UNCHANGED <<zip_progress, total_files, processed_count, current_file,
                   file_groups, collected, wPc, wIdx, segWritten, segEntries, segment_paths,
                   mergeIdx, outEntries, repPc, last_processed, processed,
                   repCurrent>>
    /\ UNCHANGED orchFrame

\* "for path in segment_paths": one segment is opened, its entries that are
\* no directories are copied, and the segment file is removed (the result of
\* fs::remove_file is dropped: `removed` tells whether the file went away).
MergeSegment(ok, removed) ==
    /\ orchPc = "merge_segments"
    /\ mergeIdx < Len(segment_paths)
    /\ ~ok => removed
    /\ LET g == segment_paths[mergeIdx + 1]
       IN  IF ok
           THEN /\ outEntries' = outEntries \o MergedEntries(segEntries[g])
                /\ segFiles' = IF removed THEN segFiles \ {g} ELSE segFiles
                /\ mergeIdx' = mergeIdx + 1
                /\ UNCHANGED <<orchPc, temp_dir>>
           ELSE /\ orchPc' = "err"
                /\ temp_dir' = FALSE
                /\ segFiles' = DropTempDir(segFiles)
                /\ UNCHANGED <<outEntries, mergeIdx>>
    /\ UNCHANGED <<zip_progress, total_files, processed_count, current_file,
                   file_groups, collected, wPc, wIdx, segWritten, segEntries, segment_paths,
                   outState, repPc, last_processed, processed, repCurrent>>
    /\ UNCHANGED orchFrame

\* "Finalize the ZIP"
MergeFinish(ok) ==
    /\ orchPc = "merge_segments"
    /\ mergeIdx = Len(segment_paths)
    /\ IF ok
       THEN /\ orchPc' = "join"
            /\ outState' = "final"
            /\ UNCHANGED <<temp_dir, segFiles>>
       ELSE /\ orchPc' = "err"
            /\ temp_dir' = FALSE
            /\ segFiles' = DropTempDir(segFiles)
            /\ UNCHANGED outState
    /\ UNCHANGED <<zip_progress, total_files, processed_count, current_file,
                   file_groups, collected, wPc, wIdx, segWritten, segEntries, segment_paths,
                   mergeIdx, outEntries, repPc, last_processed, processed,
                   repCurrent>>
    /\ UNCHANGED orchFrame

\* "let _ = progress_handle.join()"
OrchJoin ==
    /\ orchPc = "join"
    /\ repPc = "done"
    /\ orchPc' = "final"
    /\ UNCHANGED <<zip_progress, total_files, processed_count, current_file,
                   temp_dir, file_groups, collected, wPc, wIdx, segWritten, segEntries,
                   segFiles, segment_paths, mergeIdx, outState, outEntries, repPc,
                   last_processed, processed, repCurrent>>
    /\ UNCHANGED orchFrame

\* "Final update", Ok(()) and the drop of temp_dir.
OrchFinal ==
    /\ orchPc = "final"
    /\ zip_progress' = update_progress(zip_progress, operation_id,
           ZipProgress(<<"ZIP archive complete">>, total_files, total_files,
                       FullPercentage))
    /\ orchPc' = "ok"
    /\ temp_dir' = FALSE
    /\ segFiles' = DropTempDir(segFiles)
    /\ UNCHANGED <<total_files, processed_count, current_file, file_groups,
                   collected, wPc, wIdx, segWritten, segEntries, segment_paths, mergeIdx,
                   outState, outEntries, repPc, last_processed, processed,
                   repCurrent>>
    /\ UNCHANGED orchFrame

\* ------------------------------------------- start_progress_tracking (zip.rs)
repFrame == <<tree, clientFrame, initPc, initPath, initId, dlPc, dlPath, operation_id, dlGenerated, dlTotal,
              delivered, orchPc, total_files, processed_count, current_file,
              temp_dir, file_groups, collected, wPc, wIdx, segWritten, segEntries, segFiles,
              segment_paths, mergeIdx, outState, outEntries>>

\* "Exit if all files processed", else sleep.
AfterSample(sample) == IF sample >= total_files THEN "done" ELSE "sleep"

\* "let processed = processed_count.load(..)" and, when nothing changed,
\* the exit test.
ReporterLoad ==
    /\ repPc = "load"
    /\ processed' = processed_count
    /\ repPc' = IF processed_count # last_processed THEN "lock"
                ELSE AfterSample(processed_count)
    /\ UNCHANGED <<zip_progress, last_processed, repCurrent>>
    /\ UNCHANGED repFrame

\* "let current = current_file.lock().unwrap().clone()"
ReporterLock ==
    /\ repPc = "lock"
    /\ repCurrent' = current_file
    /\ repPc' = "publish"
    /\ UNCHANGED <<zip_progress, last_processed, processed>>
    /\ UNCHANGED repFrame

\* The update_progress call, "last_processed = processed" and the exit test.
ReporterPublish ==
    /\ repPc = "publish"
    /\ zip_progress' = update_progress(zip_progress, operation_id,
           ZipProgress(repCurrent, processed, total_files,
                       Percentage(processed, total_files)))
    /\ last_processed' = processed
    /\ repPc' = AfterSample(processed)
    /\ UNCHANGED <<processed, repCurrent>>
    /\ UNCHANGED repFrame

\* thread::sleep(update_interval) is over.
ReporterWake ==
    /\ repPc = "sleep"
    /\ repPc' = "load"
    /\ UNCHANGED <<zip_progress, last_processed, processed, repCurrent>>
    /\ UNCHANGED repFrame

\* -------------------------------------------------------------------- Next
Next ==
    \/ \E path \in QueryPaths : ZipInit(path)
    \/ ZipInitCount
    \/ \E path \in QueryPaths, supplied \in SuppliedIds : DlRequest(path, supplied)
    \/ ClockTick
    \/ \E ok \in BOOLEAN : DlTempFile(ok)
    \/ DlGetTotal
    \/ DlCount
    \/ DlCreating
    \/ DlAwait
    \/ DlRemove
    \/ \E ok \in BOOLEAN : DlRead(ok)
    \/ OrchGetTotal
    \/ OrchInitProgress
    \/ \E ok \in BOOLEAN : OrchTempDir(ok)
    \/ OrchSpawnReporter
    \/ \E cpus \in 1..MaxCpus : OrchCollect(cpus)
    \/ \E g \in Groups, ok \in BOOLEAN : WorkerStart(g, ok)
    \/ \E g \in Groups, added \in BOOLEAN, ok \in BOOLEAN : WorkerBeginFile(g, added, ok)
    \/ \E g \in Groups, ok \in BOOLEAN : WorkerStream(g, ok)
    \/ \E g \in Groups : WorkerCount(g)
    \/ \E g \in Groups, ok \in BOOLEAN : WorkerFinish(g, ok)
    \/ OrchParallelReturn
    \/ MergeUpdate
    \/ \E ok \in BOOLEAN : MergeCreate(ok)
    \/ \E ok \in BOOLEAN, removed \in BOOLEAN : MergeSegment(ok, removed)
    \/ \E ok \in BOOLEAN : MergeFinish(ok)
    \/ OrchJoin
    \/ OrchFinal
    \/ ReporterLoad
    \/ ReporterLock
    \/ ReporterPublish
    \/ ReporterWake

Spec == Init /\ [][Next]_vars

\* The steps of the closure create_zip_archive runs on the blocking pool.
OrchStep ==
    \/ OrchGetTotal
    \/ OrchInitProgress
    \/ \E ok \in BOOLEAN : OrchTempDir(ok)
    \/ OrchSpawnReporter
    \/ \E cpus \in 1..MaxCpus : OrchCollect(cpus)
    \/ OrchParallelReturn
    \/ MergeUpdate
    \/ \E ok \in BOOLEAN : MergeCreate(ok)
    \/ \E ok \in BOOLEAN, removed \in BOOLEAN : MergeSegment(ok, removed)
    \/ \E ok \in BOOLEAN : MergeFinish(ok)
    \/ OrchJoin
    \/ OrchFinal

\* The steps of the rayon closure on group g.
WorkerStep(g) ==
    \/ \E ok \in BOOLEAN : WorkerStart(g, ok)
    \/ \E added \in BOOLEAN, ok \in BOOLEAN : WorkerBeginFile(g, added, ok)
    \/ \E ok \in BOOLEAN : WorkerStream(g, ok)
    \/ WorkerCount(g)
    \/ \E ok \in BOOLEAN : WorkerFinish(g, ok)

\* The steps of the progress thread.
ReporterStep == ReporterLoad \/ ReporterLock \/ ReporterPublish \/ ReporterWake

\* Threads are scheduled fairly: the blocking closure, every rayon closure
\* and the progress thread each take their next step when they can.
FairSpec ==
    /\ Spec
    /\ WF_vars(OrchStep)
    /\ \A g \in 1..(MaxFiles + 1) : WF_vars(g \in Groups /\ WorkerStep(g))
    /\ WF_vars(ReporterStep)

\* ------------------------------------------------- the grouping specification
\* collect_files_by_directory on every tree of at most MaxWalkLen files: the
\* tree is built entry by entry, in file-name order, and create_zip_archive
\* then takes its "Group files by directory" step on it.
TreeFiles == SumSeq([i \in DOMAIN tree |-> IF tree[i] = 0 THEN 1 ELSE tree[i] - 1])

\* A regular file is added to the root.
TreeAddFile ==
    /\ orchPc = "collect"
    /\ TreeFiles < MaxWalkLen
    /\ tree' = Append(tree, 0)
    /\ UNCHANGED <<clientFrame, zip_progress, initPc, initPath, initId, dlPc, dlPath, operation_id, dlGenerated,
                   dlTotal, delivered, orchPc, total_files, processed_count,
                   current_file, temp_dir, file_groups, collected, wPc, wIdx, segWritten,
                   segEntries, segFiles, segment_paths, mergeIdx, outState,
                   outEntries, repPc, last_processed, processed, repCurrent>>

\* A subdirectory of k files is added to the root.
TreeAddDir(k) ==
    /\ orchPc = "collect"
    /\ TreeFiles + k <= MaxWalkLen
    /\ tree' = Append(tree, k + 1)
    /\ UNCHANGED <<clientFrame, zip_progress, initPc, initPath, initId, dlPc, dlPath, operation_id, dlGenerated,
                   dlTotal, delivered, orchPc, total_files, processed_count,
                   current_file, temp_dir, file_groups, collected, wPc, wIdx, segWritten,
                   segEntries, segFiles, segment_paths, mergeIdx, outState,
                   outEntries, repPc, last_processed, processed, repCurrent>>

GroupInit ==
    /\ tree = <<>>
    /\ dlPc = "await"
    /\ dlPath = root_path
    /\ orchPc = "collect"
    /\ Idle

GroupNext ==
    \/ TreeAddFile
    \/ \E k \in 1..MaxWalkLen : TreeAddDir(k)
    \/ \E cpus \in 1..MaxCpus : OrchCollect(cpus)

GroupSpec == GroupInit /\ [][GroupNext]_vars

\* ------------------------------------------------ the balancing specification
\* balance_file_groups on groups around the split threshold: the base
\* directory holds up to MaxBalanceGroups subdirectories, each a group of its
\* own, small or just above the threshold.
BalanceSizes == {1} \cup ((SplitThreshold + 1)..(SplitThreshold + 3))

BalanceTrees ==
    UNION {[1..n -> {k + 1 : k \in BalanceSizes}] : n \in 1..MaxBalanceGroups}

BalanceInit ==
    /\ tree \in BalanceTrees
    /\ dlPc = "await"
    /\ dlPath = root_path
    /\ orchPc = "collect"
    /\ Idle

BalanceNext == \E cpus \in 1..MaxCpus : OrchCollect(cpus)

BalanceSpec == BalanceInit /\ [][BalanceNext]_vars

\* ---------------------------------------------------- the lock specification
\* The lock and unlock operations of each thread, in program order. A guard
\* that is a temporary is dropped at the end of its statement, a guard
\* bound in a block at the end of the block.
Lock(m) == [op |-> "lock", mutex |-> m]
Unlock(m) == [op |-> "unlock", mutex |-> m]

\* start_progress_tracking, one round of the loop: "current_file.lock()
\* .unwrap().clone()", then state.update_progress(..).
ReporterProgram_Nested ==
    <<Lock("current_file"), Lock("inner"), Unlock("inner"), Unlock("current_file")>>
ReporterProgram ==
    <<Lock("current_file"), Unlock("current_file"), Lock("inner"), Unlock("inner")>>

\* The group closure: "Update current file name for progress", and at its
\* end "segment_paths.lock().unwrap().push(..)".
WorkerProgram ==
    <<Lock("current_file"), Unlock("current_file"),
      Lock("segment_paths"), Unlock("segment_paths")>>

\* ServerState::get_progress, called by handle_zip_progress.
PollerProgram == <<Lock("inner"), Unlock("inner")>>

\* ServerState::update_progress, called by create_zip_archive and
\* merge_zip_segments.
OrchestratorProgram == <<Lock("inner"), Unlock("inner")>>

ProgramOf(t) ==
    IF t = "reporter" THEN ReporterProgram
    ELSE IF t = "poller" THEN PollerProgram
    ELSE IF t = "orchestrator" THEN OrchestratorProgram
    ELSE WorkerProgram

\* Thread t is at a lock operation; the mutex it asks for.
WaitsFor(t) ==
    IF lockPc[t] <= Len(ProgramOf(t)) /\ ProgramOf(t)[lockPc[t]].op = "lock"
    THEN {ProgramOf(t)[lockPc[t]].mutex}
    ELSE {}

HeldBy(t) == {m \in Mutexes : held[m] = t}

\* Thread t does its next lock operation: Mutex::lock blocks while the mutex
\* is held. The status poll is one call; the other threads go round.
LockStep(t) ==
    /\ lockPc[t] <= Len(ProgramOf(t))
    /\ LET ins == ProgramOf(t)[lockPc[t]]
       IN  IF ins.op = "lock"
           THEN /\ held[ins.mutex] = "free"
                /\ held' = [held EXCEPT ![ins.mutex] = t]
           ELSE held' = [held EXCEPT ![ins.mutex] = "free"]
    /\ lockPc' = [lockPc EXCEPT ![t] =
                     IF lockPc[t] = Len(ProgramOf(t)) /\ t # "poller"
                     THEN 1 ELSE lockPc[t] + 1]
    /\ UNCHANGED <<shutdown_tx, inner_root_path, call, before, reply, calls, now>>
    /\ UNCHANGED stopFrame
    /\ UNCHANGED <<tree, zip_progress, initPc, initPath, initId, dlPc, dlPath,
                   operation_id, dlGenerated, dlTotal, delivered, orchPc,
                   total_files, processed_count, current_file, temp_dir,
                   file_groups, collected, wPc, wIdx, segWritten, segEntries,
                   segFiles, segment_paths, mergeIdx, outState, outEntries,
                   repPc, last_processed, processed, repCurrent>>

LockNext == \E t \in LockThreads : LockStep(t)

\* A thread that can take a mutex again and again gets it in the end, and a
\* thread that holds one goes on to release it.
LockSpec ==
    /\ Init
    /\ [][LockNext]_vars
    /\ \A t \in LockThreads : SF_vars(LockStep(t))

\* --------------------------------------------------- the tracker specification
\* ServerState's methods on every tracker state over two operation ids. Each
\* method holds the mutex of ServerState for its whole body, so a call is
\* one step, and concurrent callers are calls in any order.
JobIds == {ZipInitId, OtherId}

\* The records the callers store: one of each kind.
SampleRecords ==
    {ZipProgress(<<"Scanning directory...">>, 0, 0, 0),
     ZipProgress(<<"e03">>, 1, 2, Percentage(1, 2)),
     ZipProgress(<<"ZIP archive complete">>, 2, 2, FullPercentage)}

\* The states of the map zip_progress.
TrackerStates == UNION {[ids -> SampleRecords] : ids \in SUBSET JobIds}

\* The ServerStateInner behind the mutex.
Inner ==
    [shutdown_tx |-> shutdown_tx, root_path |-> inner_root_path,
     zip_progress |-> zip_progress]

\* #[derive(Default)] of ZipProgress
DefaultProgress == ZipProgress(<<>>, 0, 0, 0)

\* Option::unwrap_or_default
unwrap_or_default_Always(option) == DefaultProgress
unwrap_or_default(option) ==
    IF option = {} THEN DefaultProgress ELSE CHOOSE progress \in option : TRUE

\* The variables of the build, which no direct call of the tracker touches.
buildFrame == <<tree, now, held, lockPc, initPc, initPath, initId, dlPc, dlPath, operation_id, dlGenerated, dlTotal,
                delivered, orchPc, total_files, processed_count, current_file,
                temp_dir, file_groups, collected, wPc, wIdx, segWritten, segEntries,
                segFiles, segment_paths, mergeIdx, outState, outEntries, repPc,
                last_processed, processed, repCurrent>>

TrackerInit ==
    /\ tree = MainTree
    /\ zip_progress \in TrackerStates
    /\ shutdown_tx \in {{}, {"tx"}}
    /\ inner_root_path = root_path
    /\ call = NoCall
    /\ before = Inner
    /\ reply = {}
    /\ calls = 0
    /\ now = 1
    /\ held = [m \in Mutexes |-> "free"]
    /\ lockPc = [t \in LockThreads |-> 1]
    /\ stop = [r \in StopRequests |-> NoStop]
    /\ signals = 0
    /\ initPc = "idle"
    /\ initPath = <<>>
    /\ initId = "none"
    /\ dlPc = "idle"
    /\ dlPath = <<>>
    /\ operation_id = "none"
    /\ dlGenerated = FALSE
    /\ dlTotal = 0
    /\ delivered = <<>>
    /\ orchPc = "idle"
    /\ total_files = 0
    /\ processed_count = 0
    /\ current_file = <<>>
    /\ temp_dir = FALSE
    /\ file_groups = <<>>
    /\ collected = FALSE
    /\ wPc = <<>>
    /\ wIdx = <<>>
    /\ segWritten = <<>>
    /\ segEntries = <<>>
    /\ segFiles = {}
    /\ segment_paths = <<>>
    /\ mergeIdx = 0
    /\ outState = "none"
    /\ outEntries = <<>>
    /\ repPc = "none"
    /\ last_processed = 0
    /\ processed = 0
    /\ repCurrent = <<>>

\* A writer calls ServerState::update_progress(id, progress).
CallUpdateProgress(id, progress) ==
    /\ calls < MaxCalls
    /\ zip_progress' = update_progress(zip_progress, id, progress)
    /\ call' = [op |-> "update_progress", id |-> id, progress |-> {progress}]
    /\ before' = Inner
    /\ calls' = calls + 1
    /\ UNCHANGED <<shutdown_tx, inner_root_path, reply>>
    /\ UNCHANGED buildFrame
    /\ UNCHANGED stopFrame

\* handle_zip_progress: get_progress(&query.id).unwrap_or_default()
handle_zip_progress(id) ==
    /\ calls < MaxCalls
    /\ reply' = {unwrap_or_default(get_progress(zip_progress, id))}
    /\ call' = [op |-> "get_progress", id |-> id, progress |-> {}]
    /\ before' = Inner
    /\ calls' = calls + 1
    /\ UNCHANGED <<zip_progress, shutdown_tx, inner_root_path>>
    /\ UNCHANGED buildFrame
    /\ UNCHANGED stopFrame

\* A caller calls ServerState::remove_progress(id).
CallRemoveProgress(id) ==
    /\ calls < MaxCalls
    /\ zip_progress' = remove_progress(zip_progress, id)
    /\ call' = [op |-> "remove_progress", id |-> id, progress |-> {}]
    /\ before' = Inner
    /\ calls' = calls + 1
    /\ UNCHANGED <<shutdown_tx, inner_root_path, reply>>
    /\ UNCHANGED buildFrame
    /\ UNCHANGED stopFrame

\* ServerState::take_shutdown_tx: Option::take under the lock. Gives what the
\* caller gets and what stays in the state.
take_shutdown_tx_LeavesSender(tx) == [taken |-> tx, left |-> tx]

take_shutdown_tx(tx) == [taken |-> tx, left |-> {}]

\* handle_stop: "let tx = state.take_shutdown_tx();"
StopTake(r) ==
    /\ stop[r].pc = "idle"
    /\ LET t == take_shutdown_tx(shutdown_tx)
       IN  /\ shutdown_tx' = t.left
           /\ stop' = [stop EXCEPT ![r] = [pc |-> "taken", tx |-> t.taken,
                                            reply |-> "none"]]
    /\ call' = [op |-> "take_shutdown_tx", id |-> "none", progress |-> {}]
    /\ before' = Inner
    /\ UNCHANGED <<zip_progress, inner_root_path, reply, calls, signals>>
    /\ UNCHANGED buildFrame

\* handle_stop: with a sender, spawn the task that will send the signal and
\* answer success; without one, answer failure.
StopAnswer(r) ==
    /\ stop[r].pc = "taken"
    /\ stop' = [stop EXCEPT ![r] =
                   IF stop[r].tx # {}
                   THEN [pc |-> "spawned", tx |-> stop[r].tx, reply |-> "success"]
                   ELSE [pc |-> "answered", tx |-> {}, reply |-> "failure"]]
    /\ UNCHANGED <<zip_progress, shutdown_tx, inner_root_path, call, before,
                   reply, calls, signals>>
    /\ UNCHANGED buildFrame

\* The spawned task, after its sleep: "let _ = tx.send(());"
StopSend(r) ==
    /\ stop[r].pc = "spawned"
    /\ signals' = signals + 1
    /\ stop' = [stop EXCEPT ![r].pc = "answered", ![r].tx = {}]
    /\ UNCHANGED <<zip_progress, shutdown_tx, inner_root_path, call, before,
                   reply, calls>>
    /\ UNCHANGED buildFrame

TrackerNext ==
    \/ \E id \in JobIds, progress \in SampleRecords : CallUpdateProgress(id, progress)
    \/ \E id \in JobIds : handle_zip_progress(id)
    \/ \E id \in JobIds : CallRemoveProgress(id)
    \/ \E r \in StopRequests : StopTake(r)
    \/ \E r \in StopRequests : StopAnswer(r)
    \/ \E r \in StopRequests : StopSend(r)

TrackerSpec == TrackerInit /\ [][TrackerNext]_vars

\* ------------------------------------------------------------------ claims
\* The files WalkDir yields under the build's base directory, in walk order.
WalkedFiles ==
    LET files == SelectSeq(WalkDir(dlPath), LAMBDA e : e.is_file)
    IN  [i \in DOMAIN files |-> files[i].path]

\* C10: the groups collect_files_by_directory returns (balanced, through the
\* split branch and the merge branch) partition the walked file list: every
\* walked file is at exactly one place of exactly one group, nothing else
\* is in a group, and no group is empty.
C10_GroupsPartitionWalk ==
    collected =>
        LET flat == Flatten(file_groups)
            walked == WalkedFiles
        IN  /\ \A g \in DOMAIN file_groups : file_groups[g] # <<>>
            /\ Len(flat) = Len(walked)
            /\ NoDuplicates(flat)
            /\ Range(flat) = Range(walked)

\* C10 witness: the split branch has split a group.
C10_SplitHappened ==
    /\ collected
    /\ Len(file_groups) > Len(directory_groups_of(dlPath))
    /\ \E g \in DOMAIN file_groups : Len(file_groups[g]) >= SplitThreshold \div 2

\* The merge branch has combined groups.
MergeHappened ==
    /\ collected
    /\ Len(directory_groups_of(dlPath)) > 2 * MinTargetGroups
    /\ Len(file_groups) < Len(directory_groups_of(dlPath))

\* The stored record of the download's job, as a set of at most one.
JobRecord == get_progress(zip_progress, operation_id)

\* The terminal record: processed = total and 100 percent.
IsComplete(p) ==
    p.processed_files = p.total_files /\ p.percentage = FullPercentage

\* merge_zip_segments has been entered and has stored its "Merging" record.
MergingRecordWritten ==
    orchPc \in {"merge_create", "merge_segments", "join", "final", "ok"}

\* C1: for one job the processed_files values stored in the tracker never
\* decrease from the first record until the "ZIP archive complete" record,
\* over the steps of the download handler, the orchestrator (with
\* merge_zip_segments' progress write) and the reporter.
C1_ProcessedNeverDecreases ==
    [][(/\ initPc' = initPc
        /\ operation_id \in DOMAIN zip_progress
        /\ operation_id \in DOMAIN zip_progress'
        /\ zip_progress[operation_id].current_file # <<"ZIP archive complete">>)
       => zip_progress'[operation_id].processed_files
              >= zip_progress[operation_id].processed_files]_vars

\* The step is the progress thread's update_progress call.
ReporterStores == repPc = "publish" /\ repPc' # repPc

\* C2: the orchestrator joins the reporter before merge_zip_segments stores
\* its "Merging" record, so the reporter stores no record once the
\* "Merging" record is written.
C2_NoReporterWriteAfterMerging ==
    [][MergingRecordWritten => ~ReporterStores]_vars

\* C3: under fair scheduling every invocation of create_zip_archive
\* resolves, with success or failure, whatever total_files it starts with
\* and however many files the walk finds.
C3_BuildResolves == (orchPc = "get_total") ~> (orchPc \in {"ok", "err"})

\* C4: every stored record with total_files > 0 has processed_files <=
\* total_files and a percentage within 0..100.
C4_ProcessedAtMostTotal ==
    \A id \in DOMAIN zip_progress :
        zip_progress[id].total_files > 0 =>
            /\ zip_progress[id].processed_files <= zip_progress[id].total_files
            /\ zip_progress[id].percentage \in 0..FullPercentage

\* merge_zip_segments has been called.
MergeEntered ==
    orchPc \in {"merge_update", "merge_create", "merge_segments", "join",
                "final", "ok"}

\* C5: the merge is a barrier: once merge_zip_segments is called (and while
\* it writes its record, creates the output and reads segments) every group
\* closure has finished and pushed its segment; none is still writing.
C5_MergeAfterAllWorkers ==
    (MergeEntered \/ outState \in {"partial", "final"} \/ mergeIdx > 0) =>
        /\ \A g \in Groups : wPc[g] = "done"
        /\ Range(segment_paths) = Groups

\* C5 witness: the merge is reading segments of a build with several groups.
C5_MergingSeveralGroups ==
    /\ orchPc = "merge_segments"
    /\ mergeIdx >= 1
    /\ Cardinality(Groups) >= 2

\* C6: when an operation on a file fails in some group, create_zip_archive
\* ends in Err, merge_zip_segments is never run, and the download answers
\* ZipCreationError without archive bytes; a build that ends in Ok has an
\* entry for every file of every group.
C6_FileFailureFailsBuild ==
    /\ AnyGroupFailed =>
           /\ ~MergeEntered
           /\ outState \in {"none", "temp"}
           /\ outEntries = <<>>
           /\ dlPc \notin {"remove", "read", "responded"}
           /\ delivered = <<>>
    /\ orchPc = "ok" =>
           \A g \in Groups : \A i \in DOMAIN file_groups[g] :
               RelPath(file_groups[g][i], dlPath) \in Range(outEntries)

\* C6 witness: a download rejected after one group failed and another one
\* had finished its segment.
C6_RejectedAfterPartialWork ==
    /\ dlPc = "rejected"
    /\ orchPc = "err"
    /\ AnyGroupFailed
    /\ \E g \in Groups : wPc[g] = "done"

\* C7: for a job whose build fails, no record with processed_files =
\* total_files and percentage = 100 is stored for the job.
C7_FailedJobNeverComplete ==
    orchPc = "err" => \A p \in JobRecord : ~IsComplete(p)

\* C8: when create_zip_archive has returned Ok, the job's record is the
\* terminal one (processed = total, 100 percent) and stays so until
\* remove_progress is called.
C8_TerminalRecordStays ==
    (orchPc = "ok" /\ dlPc \in {"await", "remove"}) =>
        JobRecord = {ZipProgress(<<"ZIP archive complete">>, total_files,
                                 total_files, FullPercentage)}

\* The entry names the files of all groups get, in group order.
GroupFileNames ==
    LET flat == Flatten(file_groups)
    IN  [i \in DOMAIN flat |-> RelPath(flat[i], dlPath)]

C11_WorkspaceRemovedAtEnd ==
    orchPc \in {"ok", "err"} => (~temp_dir /\ segFiles = {})

\* C11 witness: the merge failed while segments it had not read yet (or had
\* failed to remove) were still in the workspace.
C11_MergeFailedAmongSegments ==
    /\ orchPc = "err"
    /\ outState = "partial"
    /\ mergeIdx >= 1
    /\ mergeIdx < Len(segment_paths)

\* The phase a stored record belongs to, by who stores it: 1 scanning
\* (handle_zip_init), 2 ready (the count task, handle_download_folder and
\* create_zip_archive's "Initialize progress": total = file count, processed
\* = 0), 3 building (the progress thread), 4 merging (merge_zip_segments),
\* 5 complete (create_zip_archive's "Final update").
PhaseOf(p) ==
    IF p.current_file = <<"Scanning directory...">> THEN 1
    ELSE IF p.current_file \in {<<"Ready to start download...">>,
                                <<"Starting compression...">>,
                                <<"Creating ZIP file...">>,
                                <<"Initializing high-performance compression...">>}
         THEN 2
    ELSE IF p.current_file = <<"Merging ZIP segments...">> THEN 4
    ELSE IF p.current_file = <<"ZIP archive complete">> THEN 5
    ELSE 3

\* C12: the records stored for one job follow the phase order scanning,
\* ready, building, merging, complete: no step replaces a job's record by a
\* record of an earlier phase, whatever the interleaving of the count task,
\* the download handler, the orchestrator and the reporter.
C12_PhasesNeverGoBack ==
    [][\A id \in (DOMAIN zip_progress) \cap (DOMAIN zip_progress') :
          PhaseOf(zip_progress'[id]) >= PhaseOf(zip_progress[id])]_vars

\* A record handle_zip_init or its count task stored, before the job started.
StoredByZipInit(p) ==
    p.current_file \in {<<"Scanning directory...">>, <<"Ready to start download...">>}

\* The job ended on a resource error at its start: NamedTempFile::new()
\* failed in the handler, or tempdir() failed in create_zip_archive (the only
\* Err before the progress thread is spawned).
ResourceErrorAtStart ==
    \/ dlPc = "rejected" /\ orchPc = "idle"
    \/ orchPc = "err" /\ repPc = "none"

\* C13: when the temporary output file or the temporary workspace cannot be
\* created, the job fails before any progress record has been created for
\* it: the tracker holds no record for the job's id, except one that
\* zip-init had stored under that id before the job.
C13_ResourceErrorBeforeAnyRecord ==
    ResourceErrorAtStart => \A p \in JobRecord : StoredByZipInit(p)

\* C14: a status query is a pure read. After handle_zip_progress the
\* ServerStateInner is what it was before the call, and the answer is the
\* stored record of the id, or the default record (empty current file,
\* counts 0, percentage 0) when the id has none; and a query that follows a
\* query of the same id, with no update or remove between, answers the same
\* record.
C14_GetIsPureRead ==
    /\ [](call.op = "get_progress" =>
            /\ Inner = before
            /\ reply = IF call.id \in DOMAIN zip_progress
                       THEN {zip_progress[call.id]}
                       ELSE {ZipProgress(<<>>, 0, 0, 0)})
    /\ [][(call.op = "get_progress" /\ call'.op = "get_progress"
              /\ call'.id = call.id) => reply' = reply]_vars

\* C14 witness: a query answered the stored record of a job after other
\* calls had been made.
C14_StoredRecordAnswered ==
    /\ call.op = "get_progress"
    /\ calls >= 2
    /\ call.id \in DOMAIN zip_progress
    /\ reply = {zip_progress[call.id]}

\* C15: remove_progress is idempotent. After remove_progress(id), for a known
\* or an unknown id, the id has no record and a status query for it answers
\* the default record; and a second remove_progress(id) right after the
\* first leaves the tracker as the first left it.
C15_RemoveIsIdempotent ==
    /\ [](call.op = "remove_progress" =>
            /\ call.id \notin DOMAIN zip_progress
            /\ unwrap_or_default(get_progress(zip_progress, call.id))
                   = ZipProgress(<<>>, 0, 0, 0)
            /\ remove_progress(zip_progress, call.id) = zip_progress)
    /\ [][(call.op = "remove_progress" /\ call'.op = "remove_progress"
              /\ call'.id = call.id) => zip_progress' = zip_progress]_vars

\* C15 witness: the record of a known job was removed while another job had
\* a record.
C15_KnownRecordRemoved ==
    /\ call.op = "remove_progress"
    /\ call.id \in DOMAIN before.zip_progress
    /\ zip_progress # <<>>

\* C16: the records of different jobs are independent. update_progress(j, r)
\* makes the record of j be r (the last write wins), and update_progress and
\* remove_progress on j leave the record of every other id, the root path
\* and the shutdown handle as they were, whatever the order of the callers.
C16_JobsAreIndependent ==
    /\ call.op = "update_progress" =>
           get_progress(zip_progress, call.id) = call.progress
    /\ call.op \in {"update_progress", "remove_progress"} =>
           /\ (DOMAIN zip_progress) \ {call.id}
                  = (DOMAIN before.zip_progress) \ {call.id}
           /\ \A k \in (DOMAIN zip_progress) \ {call.id} :
                  zip_progress[k] = before.zip_progress[k]
           /\ inner_root_path = before.root_path
           /\ shutdown_tx = before.shutdown_tx

\* C16 witness: a writer replaced the record of one job while another job
\* had a record and the shutdown handle was set.
C16_RecordReplacedBesideAnother ==
    /\ call.op = "update_progress"
    /\ call.id \in DOMAIN before.zip_progress
    /\ before.zip_progress[call.id] # zip_progress[call.id]
    /\ \E k \in DOMAIN zip_progress : k # call.id
    /\ shutdown_tx # {}

\* create_zip_archive has been called on a directory without files.
BuildingEmptyDirectory ==
    /\ orchPc # "idle"
    /\ count_files_in_directory(dlPath) = 0
    /\ total_files = 0

\* C17: for a directory with zero files count_files_in_directory is 0, a
\* build that returns Ok has produced an archive without entries, and the
\* progress goes directly to 100 percent: once the build has started, no
\* record with a percentage strictly between 0 and 100 is stored for the job.
C17_EmptyDirectoryGoesTo100 ==
    BuildingEmptyDirectory =>
        /\ orchPc = "ok" => (outState = "final" /\ outEntries = <<>>)
        /\ \A p \in JobRecord : p.percentage \in {0, FullPercentage}

\* The group closures that have written a file's last byte and have not
\* executed its fetch_add yet.
AwaitingCount == Cardinality({g \in Groups : wPc[g] = "count"})

\* C18 as stated: in every reachable state the counter equals the number of
\* files fully written across all groups, after a successful parallel phase
\* it equals the number of files of all groups, and it never decreases.
C18_CounterEqualsFilesWritten ==
    /\ [](processed_count = SumSeq(segWritten))
    /\ [](MergeEntered => processed_count = Len(Flatten(file_groups)))
    /\ [][processed_count' >= processed_count]_vars

\* C18: the counter is incremented once per file, by one atomic step that
\* comes after the file's bytes are fully written: the files fully written
\* are the files counted plus one for each closure between its last write and
\* its fetch_add; every change of the counter is an increment by one; and
\* after a successful parallel phase the counter equals the number of files
\* of all groups, all of them written.
C18_CounterCountsEveryWrittenFile ==
    /\ [](SumSeq(segWritten) = processed_count + AwaitingCount)
    /\ [](MergeEntered =>
            /\ processed_count = Len(Flatten(file_groups))
            /\ processed_count = SumSeq(segWritten))
    /\ [][processed_count' \in {processed_count, processed_count + 1}]_vars

\* C18 witness: two group closures have both written files, one of them is
\* about to count a file and the counter has been incremented before.
C18_TwoWorkersCounting ==
    /\ AwaitingCount >= 1
    /\ processed_count >= 1
    /\ Cardinality({g \in Groups : segWritten[g] >= 1}) >= 2

\* C19: before balancing, collect_files_by_directory groups the files by
\* their immediate parent directory: the files of a group have one parent,
\* and files with the same parent are in the same group, whatever the walk
\* order (files and subdirectories of a directory interleaved by name).
C19_GroupedByParent ==
    collected =>
        LET groups == directory_groups_of(dlPath)
        IN  /\ \A g \in DOMAIN groups : \A i, j \in DOMAIN groups[g] :
                   Parent(groups[g][i]) = Parent(groups[g][j])
            /\ \A g, h \in DOMAIN groups :
                   (\E i \in DOMAIN groups[g], j \in DOMAIN groups[h] :
                        Parent(groups[g][i]) = Parent(groups[h][j])) => g = h

\* The group `group` of the groups before balancing is not among the groups
\* after it: it was split.
WasSplit(group) == \A o \in DOMAIN file_groups : file_groups[o] # group

\* C20: when there are fewer groups than the target, the largest groups are
\* split first: a group is split only if the balancing pass leaves no
\* strictly larger group with more than 10 files unsplit.
C20_LargestSplitFirst ==
    collected =>
        LET groups == directory_groups_of(dlPath)
        IN  \A g \in DOMAIN groups :
                WasSplit(groups[g]) =>
                    ~\E h \in DOMAIN groups :
                        /\ Len(groups[h]) > Len(groups[g])
                        /\ Len(groups[h]) > SplitThreshold
                        /\ ~WasSplit(groups[h])

\* C21: when balance_file_groups starts with fewer groups than the target,
\* it splits until the target is approached or nothing is splittable: on
\* return the group count has reached the target, or no group has more than
\* 10 files.
C21_SplitUntilTargetOrUnsplittable ==
    collected =>
        LET groups == directory_groups_of(dlPath)
        IN  \A cpus \in 1..MaxCpus :
                (/\ Len(groups) < target_groups(cpus)
                 /\ file_groups = balance_file_groups(groups, cpus))
                => \/ Len(file_groups) >= target_groups(cpus)
                   \/ \A g \in DOMAIN file_groups :
                          Len(file_groups[g]) <= SplitThreshold

\* The groups of the merge branch after k runs of the loop body: every run
\* takes one group off, so the loop with the target Len - k stops there.
AfterMerges(sorted, k) == MergeLoop(sorted, Len(sorted) - k)

\* The run of the loop body that leads from the groups cur to the groups nxt
\* has combined the two smallest groups of cur.
CombinedTwoSmallest(cur, nxt) ==
    \E i, j \in DOMAIN cur :
        /\ i # j
        /\ nxt[Len(nxt)] = cur[i] \o cur[j]
        /\ \A k \in (DOMAIN cur) \ {i, j} :
               /\ Len(cur[k]) >= Len(cur[i])
               /\ Len(cur[k]) >= Len(cur[j])

\* C22: when balance_file_groups starts with more than twice the target, it
\* merges the two smallest groups again and again: at every merge step the
\* groups combined are the two smallest present at that step, groups made by
\* earlier merges included, and the loop stops when the count is the target.
C22_MergesTwoSmallest ==
    collected =>
        LET groups == directory_groups_of(dlPath)
            sorted == sort_by("merge", groups)
        IN  \A cpus \in 1..MaxCpus :
                (/\ Len(groups) > target_groups(cpus) * 2
                 /\ file_groups = balance_file_groups(groups, cpus))
                => /\ Len(file_groups) = target_groups(cpus)
                   /\ \A k \in 0..(Len(sorted) - target_groups(cpus) - 1) :
                          CombinedTwoSmallest(AfterMerges(sorted, k),
                                              AfterMerges(sorted, k + 1))

\* C23: every segment archive a group closure has finished holds file
\* entries only, no directory entry, also for a group whose files lie in a
\* subdirectory of the build root.
C23_SegmentsHoldOnlyFiles ==
    \A g \in Groups :
        wPc[g] = "done" =>
            \A i \in DOMAIN segEntries[g] : ~is_dir(segEntries[g][i])

\* C24: the operation ids the request layer generates are unique: the id
\* generated for a download request without an id differs from the id
\* generated for the zip-init request, so the two jobs never share a record.
C24_GeneratedIdsAreUnique ==
    (initId # "none" /\ operation_id # "none" /\ dlGenerated)
        => operation_id # initId

\* C25: no record with percentage = 100 is stored for a job before
\* merge_zip_segments has finalized the output archive, however the
\* progress thread interleaves with the merge.
C25_No100BeforeArchiveFinal ==
    \A p \in JobRecord : p.percentage = FullPercentage => outState = "final"

\* The progress thread of the job ends, once it is started.
ReporterTerminates == (repPc # "none") ~> (repPc = "done")

\* C26: the progress thread started for a job ends in every execution, also
\* when the build fails during segment building or merge and the
\* orchestrator returns without joining it, and it stores no record for the
\* job after create_zip_archive has returned.
C26_ReporterEndsWithTheBuild ==
    /\ ReporterTerminates
    /\ [][(orchPc \in {"ok", "err"} => ~ReporterStores)]_vars

\* C27: after a successful build, once handle_download_folder has called
\* remove_progress, the record of the job (started by zip-init, its id
\* supplied to the download) stays absent: neither the count task nor the
\* progress thread nor the orchestrator stores a record for the id afterwards.
C27_RecordStaysRemoved ==
    (/\ orchPc = "ok"
     /\ ~dlGenerated
     /\ dlPc \in {"read", "responded", "rejected"})
    => JobRecord = {}

C29_ShutdownIsOneShot ==
    /\ [](/\ Cardinality({r \in StopRequests : stop[r].reply = "success"}) <= 1
          /\ signals <= 1)
    /\ [][(\A r \in StopRequests :
             /\ (stop[r].pc = "idle" /\ stop'[r].pc = "taken" /\ shutdown_tx = {})
                    => (Inner' = Inner /\ stop'[r].tx = {})
             /\ (stop[r].pc = "taken" /\ stop[r].tx = {} /\ stop'[r].pc # "taken")
                    => stop'[r].reply = "failure")]_vars

\* C29 witness: one stop request was answered success and its signal was
\* sent, and every other request was answered failure.
C29_OneSuccessRestFailure ==
    /\ signals = 1
    /\ Cardinality({r \in StopRequests : stop[r].reply = "success"}) = 1
    /\ Cardinality({r \in StopRequests : stop[r].reply = "failure"}) = MaxStops - 1

====
